---- MODULE Spec2Model ----
(***************************************************************************)
(* Verification model of reactiondataextractor's geometric core:           *)
(*   models/segments.py  Rect (spatial algebra), Figure/Crop (surfaces)    *)
(*   models/output.py    Graph/ReactionScheme (scheme graph), RoleProbe    *)
(*   models/reaction.py  Diagram, ReactionStep, BaseArrow                  *)
(*   configs/figure.py   GlobalFigureMixin (default surface of a Panel)    *)
(*                                                                         *)
(* Distances.  np.hypot returns a float; every distance of the model is    *)
(* kept as its SQUARE (an integer, since coordinates are integers).        *)
(* Squaring is strictly increasing on non-negative numbers, so equality,   *)
(* order and "== 0" of distances are equality, order and "= 0" of their    *)
(* squares.  An axis-aligned gap g is therefore kept as g * g.             *)
(***************************************************************************)
EXTENDS Integers, Sequences, FiniteSets, TLC

VARIABLES
    rectA, rectB,   \* geometry: the two regions the Rect methods are called on
    geo,            \* geometry: results of the calls made so far
    crop,           \* surfaces: the Crop under study (or Unset)
    mapped,         \* surfaces: results of Crop.in_main_fig for the crop's components
    scheme,         \* scheme graph: the ReactionScheme under study (or Unset)
    export,         \* scheme graph: outcome of the last to_smirks() call
    layout,         \* role probe: the figure's diagrams and arrows
    probe,          \* role probe: RoleProbe state (reaction_steps, back-references)
    config,         \* panels: Config.FIGURE, the process-wide default surface
    panels,         \* panels: outcomes of the Rect and Panel constructor calls
    search,         \* scheme graph: outcome of the last find_path() call
    document,       \* scheme graph: outcome of the last to_json() call
    remapped        \* surfaces: results of a round trip through both crop mappers

vars == <<rectA, rectB, geo, crop, mapped, scheme, export, layout, probe,
          config, panels, search, document, remapped>>

\* "No value yet" is the empty sequence and a value v is <<v>>, so that a result
\* of any type can be compared with "no value yet".
Unset == <<>>
Some(v) == <<v>>
Val(o) == o[1]

Min(a, b) == IF a <= b THEN a ELSE b
Max(a, b) == IF a >= b THEN a ELSE b

(***************************************************************************)
(* Bounds of the model.                                                    *)
(***************************************************************************)
\* Region coordinates of the geometry specification are drawn from 0..MaxCoord.
MaxCoord == 3
\* Width and height, in pixels, of the parent figure of the surface specification.
FigW == 3
FigH == 2
\* Largest padding width handed to pad_crop.
MaxPad == 2
\* Number of diagrams, and of reaction steps, of the scheme-graph specification.
MaxDiags == 2
MaxSteps == 2
\* Role-probe layouts: largest gap between neighbouring objects of a print
\* line, the margin of the wide layouts, largest gap between two print lines,
\* largest offset of the diagram of the second line.
MaxGap == 3
MaxMargin == 2
MaxRowGap == 1
MaxOffset == 5
\* Role-probe layouts: largest reach of a diagram laid over an arrow beyond
\* the arrow's panel.
MaxOver == 1
\* Largest number of resolve_nodes calls.
MaxResolves == 2

(***************************************************************************)
(* segments.py: Rect                                                       *)
(***************************************************************************)

\* Rect.__init__: coords = (top, left, bottom, right); nothing is validated.
Rect(t, l, b, r) == [top |-> t, left |-> l, bottom |-> b, right |-> r]

\* Rect.__iter__: the order in which a region unpacks.
RectIter(R) == <<R.top, R.left, R.bottom, R.right>>

width(R) == R.right - R.left
height(R) == R.bottom - R.top

\* A containment test that compares the other region's LEFT edge with self's
\* right edge.
contains_left_for_right(self, other) ==
    /\ other.left >= self.left
    /\ other.left <= self.right
    /\ other.top >= self.top
    /\ other.bottom <= self.bottom

\* Rect.contains
contains(self, other) ==
    /\ other.left >= self.left
    /\ other.right <= self.right
    /\ other.top >= self.top
    /\ other.bottom <= self.bottom

\* Rect.contains_point: pt = (x, y)
contains_point(self, pt) ==
    /\ self.left <= pt[1] /\ pt[1] <= self.right
    /\ self.top <= pt[2] /\ pt[2] <= self.bottom

\* An overlap test that forgets the vertical condition.
overlaps_horizontal_only(self, other) ==
    Min(self.right, other.right) > Max(self.left, other.left)

\* Rect.overlaps, the Rect branch
overlaps(self, other) ==
    /\ Min(self.right, other.right) > Max(self.left, other.left)
    /\ Min(self.bottom, other.bottom) > Max(self.top, other.top)

\* dist() of _edge_separation_rect, squared: p = (x, y)
distSq(p1, p2) ==
    LET w == p2[1] - p1[1]
        h == p2[2] - p1[2]
    IN  w * w + h * h

\* Rect._edge_separation_rect (squared), case by case as the code orders them.
edge_separation_rect(self, other) ==
    LET t1 == RectIter(self)[1]
        l1 == RectIter(self)[2]
        b1 == RectIter(self)[3]
        r1 == RectIter(self)[4]
        t2 == RectIter(other)[1]
        l2 == RectIter(other)[2]
        b2 == RectIter(other)[3]
        r2 == RectIter(other)[4]
        left == r2 < l1
        right == r1 < l2
        bottom == b1 < t2
        top == b2 < t1
    IN  IF top /\ left THEN distSq(<<l1, t1>>, <<r2, b2>>)
        ELSE IF bottom /\ left THEN distSq(<<l1, t1>>, <<r2, t2>>)
        ELSE IF bottom /\ right THEN distSq(<<r1, t1>>, <<l2, t2>>)
        ELSE IF right /\ top THEN distSq(<<r1, b1>>, <<l2, b2>>)
        ELSE IF left THEN (l1 - r2) * (l1 - r2)
        ELSE IF right THEN (l2 - r1) * (l2 - r1)
        ELSE IF bottom THEN (t2 - b1) * (t2 - b1)
        ELSE IF top THEN (t1 - b2) * (t1 - b2)
        ELSE 0

\* Rect.edge_separation with a 2-sequence (x, y): the point becomes Rect([y, x, y, x]).
edge_separation_pt(self, pt) ==
    edge_separation_rect(self, Rect(pt[2], pt[1], pt[2], pt[1]))

\* Rect.compute_iou.  The result is the fraction num/den, or the exception
\* Python raises for an integer division by zero.
IouValue(n, d) == [kind |-> "value", num |-> n, den |-> d]
IouRaise == [kind |-> "raise", exc |-> "ZeroDivisionError"]

compute_iou(self, other) ==
    LET xa == RectIter(self)[1]
        ya == RectIter(self)[2]
        wa == RectIter(self)[3]
        ha == RectIter(self)[4]
        xb == RectIter(other)[1]
        yb == RectIter(other)[2]
        wb == RectIter(other)[3]
        hb == RectIter(other)[4]
        x1_inter == Max(xa, xb)
        y1_inter == Max(ya, yb)
        x2_inter == Min(xa + wa, xb + wb)
        y2_inter == Min(ya + ha, yb + hb)
        area_a == wa * ha
        area_b == wb * hb
        area_intersection == (x2_inter - x1_inter) * (y2_inter - y1_inter)
        union == area_a + area_b - area_intersection
    IN  IF x2_inter < x1_inter \/ y2_inter < y1_inter THEN IouValue(0, 1)
        ELSE IF union = 0 THEN IouRaise
        ELSE IouValue(area_intersection, union)

IouIsZero(v) == v.kind = "value" /\ v.num = 0
IouIsPositive(v) == v.kind = "value" /\ v.num * v.den > 0

(***************************************************************************)
(* Geometry specification: two regions, and the Rect methods called on     *)
(* them in any order.                                                      *)
(***************************************************************************)
Rects ==
    {Rect(t, l, b, r) : t \in 0..MaxCoord, l \in 0..MaxCoord,
                        b \in 0..MaxCoord, r \in 0..MaxCoord}

\* A region as every producer in the code builds it: top <= bottom, left <= right.
WellFormed(R) == R.top <= R.bottom /\ R.left <= R.right

GeoNone ==
    [overlaps |-> Unset, sepAB |-> Unset, sepBA |-> Unset,
     iou |-> Unset, contains |-> Unset]

OtherIdle ==
    /\ crop = Unset
    /\ mapped = Unset
    /\ scheme = Unset
    /\ export = Unset
    /\ layout = Unset
    /\ probe = Unset
    /\ config = Unset
    /\ panels = Unset
    /\ search = Unset
    /\ document = Unset
    /\ remapped = Unset

InitGeom ==
    /\ rectA \in {R \in Rects : WellFormed(R)}
    /\ rectB \in {R \in Rects : WellFormed(R)}
    /\ geo = GeoNone
    /\ OtherIdle

CallOverlaps ==
    /\ geo.overlaps = Unset
    /\ geo' = [geo EXCEPT !.overlaps = Some(overlaps(rectA, rectB))]
    /\ UNCHANGED <<rectA, rectB, crop, mapped, scheme, export, layout, probe,
                 config, panels, search, document, remapped>>

\* A.edge_separation(B) and B.edge_separation(A)
CallEdgeSeparation ==
    /\ geo.sepAB = Unset
    /\ geo' = [geo EXCEPT !.sepAB = Some(edge_separation_rect(rectA, rectB)),
                          !.sepBA = Some(edge_separation_rect(rectB, rectA))]
    /\ UNCHANGED <<rectA, rectB, crop, mapped, scheme, export, layout, probe,
                 config, panels, search, document, remapped>>

CallComputeIou ==
    /\ geo.iou = Unset
    /\ geo' = [geo EXCEPT !.iou = Some(compute_iou(rectA, rectB))]
    /\ UNCHANGED <<rectA, rectB, crop, mapped, scheme, export, layout, probe,
                 config, panels, search, document, remapped>>

CallContains ==
    /\ geo.contains = Unset
    /\ geo' = [geo EXCEPT !.contains = Some(contains(rectA, rectB))]
    /\ UNCHANGED <<rectA, rectB, crop, mapped, scheme, export, layout, probe,
                 config, panels, search, document, remapped>>

NextGeom == CallOverlaps \/ CallEdgeSeparation \/ CallComputeIou \/ CallContains

SpecGeom == InitGeom /\ [][NextGeom]_vars

(***************************************************************************)
(* segments.py: Figure and Crop                                            *)
(*                                                                         *)
(* An image is described by its shape and its foreground: a set of solid   *)
(* rectangles of foreground pixels ("blobs", as boxes (top, left, bottom,  *)
(* right) with exclusive bottom and right, the convention of               *)
(* set_connected_components), no two of which touch, so that each blob is  *)
(* one 8-connected component.  origin is the position, in the parent       *)
(* figure, of the image's pixel (0, 0): it is not a field of the code, it  *)
(* records what the pixels of the image are, and is only read by the       *)
(* claims.                                                                 *)
(***************************************************************************)
Image(h, w, bs, org) == [h |-> h, w |-> w, blobs |-> bs, origin |-> org]

Shift(R, dy, dx) == Rect(R.top + dy, R.left + dx, R.bottom + dy, R.right + dx)

\* img[top:bottom, left:right] on one axis of length n: Python's slice bounds
\* (a negative bound counts from the end; bounds are clipped to 0..n).
SliceBound(i, n) == IF i < 0 THEN Max(i + n, 0) ELSE Min(i, n)

\* numpy slicing img[top:bottom, left:right]
Slice(img, top, bottom, left, right) ==
    LET r0 == SliceBound(top, img.h)
        r1 == Max(SliceBound(bottom, img.h), r0)
        c0 == SliceBound(left, img.w)
        c1 == Max(SliceBound(right, img.w), c0)
        clip(b) == Rect(Max(b.top, r0), Max(b.left, c0),
                        Min(b.bottom, r1), Min(b.right, c1))
        kept == {b \in img.blobs : height(clip(b)) > 0 /\ width(clip(b)) > 0}
    IN  Image(r1 - r0, c1 - c0,
              {Shift(clip(b), -r0, -c0) : b \in kept},
              <<img.origin[1] + r0, img.origin[2] + c0>>)

\* np.pad(img, pad_width) with pad_width = ((top, bottom), (left, right))
Pad(img, pw) ==
    Image(img.h + pw.top + pw.bottom, img.w + pw.left + pw.right,
          {Shift(b, pw.top, pw.left) : b \in img.blobs},
          <<img.origin[1] - pw.top, img.origin[2] - pw.left>>)

\* Boxes in raster order of their first pixel, the order in which
\* cv2.connectedComponentsWithStats labels components.
RasterBefore(a, b) == a.top < b.top \/ (a.top = b.top /\ a.left < b.left)

RECURSIVE RasterSeq(_)
RasterSeq(S) ==
    IF S = {} THEN <<>>
    ELSE LET first == CHOOSE a \in S : \A b \in S \ {a} : RasterBefore(a, b)
         IN  <<first>> \o RasterSeq(S \ {first})

\* Pixels (row, column) of the image that are not foreground: label 0 of
\* cv2.connectedComponentsWithStats.
Background(img) ==
    {p \in (0..(img.h - 1)) \X (0..(img.w - 1)) :
        \A b \in img.blobs :
            ~(b.top <= p[1] /\ p[1] < b.bottom /\ b.left <= p[2] /\ p[2] < b.right)}

\* The statistics (bounding box) of label 0.  The statistics cv2 reports for a
\* label without pixels are not modelled: components are computed only for
\* images that have a background pixel.
BackgroundBox(img) ==
    LET bg == Background(img)
        ys == {p[1] : p \in bg}
        xs == {p[2] : p \in bg}
        lo(S) == CHOOSE a \in S : \A c \in S : a <= c
        hi(S) == CHOOSE a \in S : \A c \in S : a >= c
    IN  Rect(lo(ys), lo(xs), hi(ys) + 1, hi(xs) + 1)

\* Figure.set_connected_components: one Panel (y1, x1, y1 + h, x1 + w) per
\* label, label 0 first, whose box covers less than 95% of the image.
set_connected_components(img) ==
    LET keep(b) == 100 * width(b) * height(b) < 95 * (img.w * img.h)
        bg == BackgroundBox(img)
    IN  (IF keep(bg) THEN <<bg>> ELSE <<>>)
            \o RasterSeq({b \in img.blobs : keep(b)})

\* Crop._crop_main_figure: the requested rectangle clamped to the figure.
crop_main_figure_rect(fig, params) ==
    LET top == params.top
        left == params.left
        bottom == params.bottom
        right == params.right
    IN  Rect(Max(0, IF top # 0 THEN top ELSE 0),
             Max(0, IF left # 0 THEN left ELSE 0),
             Min(fig.h, IF bottom # 0 THEN bottom ELSE fig.w),
             Min(fig.w, IF right # 0 THEN right ELSE fig.w))

\* Crop.__init__ (with Figure.__init__): components are not computed yet.
CropInit(fig, params) ==
    LET cr == crop_main_figure_rect(fig, params)
    IN  [main_figure |-> fig,
         crop_params |-> params,
         cropped_rect |-> cr,
         img |-> Slice(fig, cr.top, cr.bottom, cr.left, cr.right),
         connected_components |-> Unset,
         padding |-> Unset,
         top_padding |-> 0,
         left_padding |-> 0]

\* Figure.connected_components (property): computed on first use.
connected_components(c) ==
    IF c.connected_components = Unset
    THEN set_connected_components(c.img)
    ELSE Val(c.connected_components)

\* Crop.pad_crop.  Assigning self.img runs the img setter, which recomputes the
\* components from the padded image; the loop then shifts every component by
\* the recorded paddings.
pad_crop(c, pw) ==
    LET img2 == Pad(c.img, pw)
        ccs == set_connected_components(img2)
    IN  [c EXCEPT
            !.img = img2,
            !.padding = Some(pw),
            !.top_padding = pw.top,
            !.left_padding = pw.left,
            !.connected_components =
                Some([i \in 1..Len(ccs) |-> Shift(ccs[i], pw.top, pw.left)])]

\* Crop.in_main_fig, the Panel branch
in_main_fig(c, element) ==
    LET new_top == element.top + c.cropped_rect.top - c.top_padding
        new_bottom == new_top + height(element) - c.top_padding
        new_left == element.left + c.cropped_rect.left - c.left_padding
        new_right == new_left + width(element) - c.left_padding
    IN  Rect(new_top, new_left, new_bottom, new_right)

\* Crop.in_crop
in_crop(c, cc) ==
    LET new_top == cc.top - c.cropped_rect.top
        new_bottom == new_top + height(cc)
        new_left == cc.left - c.cropped_rect.left
        new_right == new_left + width(cc)
    IN  Rect(new_top, new_left, new_bottom, new_right)

(***************************************************************************)
(* Surface specification: a Crop of a figure, its components, padding, the *)
(* mapping of its components to the parent figure, and one round trip      *)
(* through both mappers, from the crop or from the parent.                 *)
(***************************************************************************)
\* Boxes of positive area inside the figure.
FigBoxes ==
    {Rect(t, l, b, r) : t \in 0..FigH, l \in 0..FigW, b \in 0..FigH, r \in 0..FigW}

\* The single pixel in the bottom-right corner of the figure.
CornerPixel == Rect(FigH - 1, FigW - 1, FigH, FigW)

\* Two blobs are separate components when their closed boxes have no common
\* point (a common edge or corner would make their pixels 8-connected).
Separate(a, b) ==
    ~(/\ Min(a.right, b.right) >= Max(a.left, b.left)
      /\ Min(a.bottom, b.bottom) >= Max(a.top, b.top))

\* The parent figures: one blob, or one blob and the corner pixel.
Figures ==
    LET one == {b \in FigBoxes : width(b) > 0 /\ height(b) > 0}
    IN  {Image(FigH, FigW, {b}, <<0, 0>>) : b \in one}
        \cup {Image(FigH, FigW, {b, CornerPixel}, <<0, 0>>) :
                b \in {x \in one : Separate(x, CornerPixel)}}

\* Requested crop rectangles: positive area, overrunning the figure by at most 1.
CropParams ==
    {R \in {Rect(t, l, b, r) : t \in (-1)..(FigH + 1), l \in (-1)..(FigW + 1),
                               b \in (-1)..(FigH + 1), r \in (-1)..(FigW + 1)} :
        R.top < R.bottom /\ R.left < R.right}

\* pad_width: an int p (all four sides p), or ((p, p), (0, 0)) (rows only).
PadWidths ==
    {[top |-> p, bottom |-> p, left |-> p, right |-> p] : p \in 0..MaxPad}
    \cup {[top |-> p, bottom |-> p, left |-> 0, right |-> 0] : p \in 1..MaxPad}

InitCrop ==
    /\ crop \in {Some(CropInit(fig, params)) : fig \in Figures, params \in CropParams}
    /\ mapped = Unset
    /\ rectA = Unset /\ rectB = Unset /\ geo = Unset
    /\ scheme = Unset /\ export = Unset
    /\ layout = Unset /\ probe = Unset
    /\ config = Unset /\ panels = Unset
    /\ search = Unset /\ document = Unset
    /\ remapped = Unset

\* First read of crop.connected_components on a crop that was not padded.
AccessComponents ==
    /\ Val(crop).connected_components = Unset
    /\ Background(Val(crop).img) # {}
    /\ crop' = Some([Val(crop) EXCEPT
                        !.connected_components = Some(connected_components(Val(crop)))])
    /\ UNCHANGED <<mapped, rectA, rectB, geo, scheme, export, layout, probe,
                 config, panels, search, document, remapped>>

\* crop.pad_crop(pad_width), called once.
PadCrop ==
    /\ Val(crop).padding = Unset
    /\ mapped = Unset
    /\ remapped = Unset
    /\ \E pw \in PadWidths :
          /\ Background(Pad(Val(crop).img, pw)) # {}
          /\ crop' = Some(pad_crop(Val(crop), pw))
    /\ UNCHANGED <<mapped, rectA, rectB, geo, scheme, export, layout, probe,
                 config, panels, search, document, remapped>>

\* [crop.in_main_fig(cc) for cc in crop.connected_components]
MapToParent ==
    /\ mapped = Unset
    /\ Val(crop).connected_components # Unset
    /\ LET ccs == Val(Val(crop).connected_components)
       IN  mapped' = Some([i \in 1..Len(ccs) |-> in_main_fig(Val(crop), ccs[i])])
    /\ UNCHANGED <<crop, rectA, rectB, geo, scheme, export, layout, probe,
                 config, panels, search, document, remapped>>

\* [crop.in_crop(crop.in_main_fig(cc)) for cc in crop.connected_components]
RoundTripFromCrop ==
    /\ remapped = Unset
    /\ Val(crop).connected_components # Unset
    /\ \E ccs \in {Val(Val(crop).connected_components)} :
          remapped' = Some([start |-> "crop",
                            panels |-> ccs,
                            result |-> [i \in 1..Len(ccs) |->
                                          in_crop(Val(crop), in_main_fig(Val(crop), ccs[i]))]])
    /\ UNCHANGED <<crop, mapped, rectA, rectB, geo, scheme, export, layout, probe,
                 config, panels, search, document>>

\* [crop.in_main_fig(crop.in_crop(c)) for c in main_figure.connected_components]
RoundTripFromParent ==
    /\ remapped = Unset
    /\ Background(Val(crop).main_figure) # {}
    /\ \E ccs \in {set_connected_components(Val(crop).main_figure)} :
          remapped' = Some([start |-> "parent",
                            panels |-> ccs,
                            result |-> [i \in 1..Len(ccs) |->
                                          in_main_fig(Val(crop), in_crop(Val(crop), ccs[i]))]])
    /\ UNCHANGED <<crop, mapped, rectA, rectB, geo, scheme, export, layout, probe,
                 config, panels, search, document>>

NextCrop ==
    \/ AccessComponents \/ PadCrop \/ MapToParent
    \/ RoundTripFromCrop \/ RoundTripFromParent

SpecCrop == InitCrop /\ [][NextCrop]_vars

\* The boxes, in the parent figure's coordinates, of the components of the
\* crop's image: what each component "has in the parent surface".
ParentBoxes(c) ==
    LET ccs == set_connected_components(c.img)
    IN  [i \in 1..Len(ccs) |-> Shift(ccs[i], c.img.origin[1], c.img.origin[2])]

\* C7: for a Crop padded with pad_crop(p), p > 0, in_main_fig maps every
\* component of the crop to exactly the coordinates (top, left, bottom, right)
\* the component has in the parent figure, width and height unchanged.
C7_PaddedRoundTrip ==
    (/\ mapped # Unset
     /\ Val(crop).padding # Unset
     /\ Val(Val(crop).padding).top > 0
     /\ Val(Val(crop).padding).left = Val(Val(crop).padding).top) =>
        Val(mapped) = ParentBoxes(Val(crop))

\* The image of the crop before any padding: what Crop.__init__ cut out.
UnpaddedImage(c) == CropInit(c.main_figure, c.crop_params).img

\* C20: after pad_crop(p), p > 0, every connected component the crop owns has
\* the coordinates of a component of the un-padded crop shifted by exactly
\* the padding (top padding on top and bottom, left padding on left and
\* right), whether or not the components had been computed before the call.
C20_ComponentsShiftedByPadding ==
    (/\ Val(crop).padding # Unset
     /\ Val(Val(crop).padding).top > 0
     /\ Background(UnpaddedImage(Val(crop))) # {}) =>
        \E unpadded \in {set_connected_components(UnpaddedImage(Val(crop)))} :
            \A i \in DOMAIN Val(Val(crop).connected_components) :
                \E j \in DOMAIN unpadded :
                    Val(Val(crop).connected_components)[i] =
                        Shift(unpadded[j], Val(crop).top_padding, Val(crop).left_padding)

\* The requested rectangle clamped to the bounds of the parent figure: every
\* coordinate limited to the range 0..n of its axis.
ClampedRect(fig, params) ==
    LET Clamp(v, n) == Max(0, Min(v, n))
    IN  Rect(Clamp(params.top, fig.h), Clamp(params.left, fig.w),
             Clamp(params.bottom, fig.h), Clamp(params.right, fig.w))

\* C21: for any requested crop rectangle, including one that overruns the
\* parent or has a coordinate equal to 0, the crop's cropped_rect is the
\* requested rectangle clamped to the parent's bounds: it lies within
\* [0, height] x [0, width], has top <= bottom and left <= right, and equals
\* the requested rectangle when that rectangle is inside the parent.
C21_CroppedRectIsClamped ==
    crop # Unset =>
        /\ Val(crop).cropped_rect =
              ClampedRect(Val(crop).main_figure, Val(crop).crop_params)
        /\ 0 <= Val(crop).cropped_rect.top
        /\ Val(crop).cropped_rect.top <= Val(crop).cropped_rect.bottom
        /\ Val(crop).cropped_rect.bottom <= Val(crop).main_figure.h
        /\ 0 <= Val(crop).cropped_rect.left
        /\ Val(crop).cropped_rect.left <= Val(crop).cropped_rect.right
        /\ Val(crop).cropped_rect.right <= Val(crop).main_figure.w

\* C28: the two crop coordinate mappers are inverses up to the padding: for
\* a panel e of a Crop with recorded padding, in_crop(in_main_fig(e)) has the
\* coordinates of e less the padding offsets, and with zero padding
\* in_main_fig(in_crop(c)) = c for every panel c of the parent.
C28_MappersAreInverses ==
    remapped # Unset =>
        \A i \in DOMAIN Val(remapped).panels :
            /\ (Val(remapped).start = "crop" /\ Val(crop).padding # Unset) =>
                  Val(remapped).result[i] =
                      Shift(Val(remapped).panels[i],
                            -Val(crop).top_padding, -Val(crop).left_padding)
            /\ (/\ Val(remapped).start = "parent"
                /\ Val(crop).top_padding = 0
                /\ Val(crop).left_padding = 0) =>
                  Val(remapped).result[i] = Val(remapped).panels[i]

(***************************************************************************)
(* output.py: Graph and ReactionScheme                                     *)
(*                                                                         *)
(* Diagrams are the numbers 1..MaxDiags (Diagram.__eq__/__hash__ compare   *)
(* the panel, so a diagram is its panel); the Conditions object of the     *)
(* arrow of step k is the number CondBase + k.  A frozenset is kept as the *)
(* ascending sequence of its members: two frozensets are equal iff these   *)
(* sequences are.  A dict is kept as the sequence of its (key, value)      *)
(* entries in insertion order.                                             *)
(***************************************************************************)
CondBase == 100

RangeOf(seq) == {seq[i] : i \in DOMAIN seq}

RECURSIVE Ascending(_)
Ascending(S) ==
    IF S = {} THEN <<>>
    ELSE LET m == CHOOSE x \in S : \A y \in S : x <= y
         IN  <<m>> \o Ascending(S \ {m})

\* A key that keeps the list as it is (a tuple of the list).
frozenset_as_tuple(list) == list

\* frozenset(list)
frozenset(list) == Ascending(RangeOf(list))

\* ReactionStep as the graph reads it: reactants, products, conditions
\* (ReactionStep.conditions is arrow.conditions, the arrow's children list).
Step(r, p, c) == [reactants |-> r, products |-> p, conditions |-> c]

\* Graph.__init__
GraphInit == [nodes |-> <<>>, adjacency |-> <<>>, node_idx |-> 0]

HasKey(dict, k) == \E i \in DOMAIN dict : dict[i].key = k
Lookup(dict, k) == dict[CHOOSE i \in DOMAIN dict : dict[i].key = k].value

\* Graph.add_node
add_node(g, node) ==
    IF ~HasKey(g.nodes, frozenset(node))
    THEN [g EXCEPT
            !.nodes = Append(g.nodes, [key |-> frozenset(node), value |-> g.node_idx]),
            !.node_idx = g.node_idx + 1]
    ELSE g

\* ReactionScheme._generate_edge
generate_edge(g, key, successor) ==
    LET k == Lookup(g.nodes, frozenset(key))
        succ == Lookup(g.nodes, frozenset(successor))
    IN  IF HasKey(g.adjacency, k) /\ Lookup(g.adjacency, k) # <<>>
        THEN [g EXCEPT !.adjacency =
                [i \in DOMAIN g.adjacency |->
                    IF g.adjacency[i].key = k
                    THEN [key |-> k, value |-> Append(g.adjacency[i].value, succ)]
                    ELSE g.adjacency[i]]]
        ELSE [g EXCEPT !.adjacency = Append(g.adjacency, [key |-> k, value |-> <<succ>>])]

\* ReactionScheme.create_graph, first loop: the nodes of steps i..Len(steps)
RECURSIVE create_graph_nodes(_, _, _)
create_graph_nodes(g, steps, i) ==
    IF i > Len(steps) THEN g
    ELSE create_graph_nodes(
            add_node(add_node(add_node(g, steps[i].reactants), steps[i].products),
                     steps[i].conditions),
            steps, i + 1)

\* ReactionScheme.create_graph, second loop: the edges of steps i..Len(steps)
RECURSIVE create_graph_edges(_, _, _)
create_graph_edges(g, steps, i) ==
    IF i > Len(steps) THEN g
    ELSE create_graph_edges(
            generate_edge(generate_edge(g, steps[i].reactants, steps[i].conditions),
                          steps[i].conditions, steps[i].products),
            steps, i + 1)

create_graph(g, steps) == create_graph_edges(create_graph_nodes(g, steps, 1), steps, 1)

\* ReactionScheme.__init__.  An attribute the constructor never assigns
\* (_single_path, _graph_dict, graph) does not exist on the object: it is Unset.
\* _start and _end are assigned None.
ReactionSchemeInit(steps) ==
    LET g == create_graph(GraphInit, steps)
    IN  [reaction_steps |-> steps,
         nodes |-> g.nodes,
         adjacency |-> g.adjacency,
         node_idx |-> g.node_idx,
         start |-> "None",
         end |-> "None",
         single_path |-> Unset,
         graph_dict |-> Unset,
         graph |-> Unset]

\* Outcomes of a call.
Raised(exc) == [kind |-> "raise", value |-> exc]
Returned(v) == [kind |-> "return", value |-> v]

\* ReactionScheme.to_smirks, the walk of lines 352-371 from `node`: the species
\* strings collected so far are counted (n); a string result is kept as its
\* number of '>'-separated segments.  A walk longer than the number of keys has
\* entered a cycle and ends at the recursion limit.
RECURSIVE smirks_walk(_, _, _)
smirks_walk(graph, node, n) ==
    IF ~HasKey(graph, node) THEN Raised("KeyError")
    ELSE IF n > Len(graph) THEN Raised("RecursionError")
    ELSE IF Lookup(graph, node) = <<>>
         THEN Returned([type |-> "str", segments |-> n + 1])
    ELSE smirks_walk(graph, Lookup(graph, node)[1], n + 1)

\* ReactionScheme.to_smirks()
to_smirks(sch) ==
    IF sch.single_path = Unset THEN Raised("AttributeError")
    ELSE IF ~Val(sch.single_path)
         THEN Returned([type |-> "NotImplemented", segments |-> 0])
    ELSE IF sch.graph_dict = Unset THEN Raised("AttributeError")
    ELSE IF sch.start = "None" THEN Raised("TypeError")
    ELSE smirks_walk(Val(sch.graph_dict), sch.start[1], 0)

\* Number of labels to_json has at hand: map(str, range(50)).
JsonLabels == 50

\* ReactionScheme.to_json().  The labels "0", "1", ... are kept as numbers; a
\* node's content is kept as the node itself (the registry key).  The result
\* is the document before json.dumps, both parts as dicts.
to_json(sch) ==
    LET count == Min(JsonLabels, Len(sch.nodes))
        nodes == [i \in 1..count |-> [key |-> i - 1, value |-> sch.nodes[i].key]]
        labels(test(_)) ==
            LET hits == SelectSeq(nodes, LAMBDA e : test(e.value))
            IN  [i \in DOMAIN hits |-> hits[i].key]
    IN  IF sch.graph = Unset THEN Raised("AttributeError")
        ELSE LET graph == Val(sch.graph)
                 node1_labels(e) == labels(LAMBDA node : node = graph[e].key)
                 out_nodes_labels(e) == labels(LAMBDA node : node \in RangeOf(graph[e].value))
             IN  IF \E e \in DOMAIN graph : node1_labels(e) = <<>>
                 THEN Raised("IndexError")
                 ELSE Returned([node_labels |-> nodes,
                                adjacency |-> [e \in DOMAIN graph |->
                                                 [key |-> node1_labels(e)[1],
                                                  value |-> out_nodes_labels(e)]]])

(***************************************************************************)
(* Scheme-graph specification: a ReactionScheme is constructed from an     *)
(* ordered list of steps and exported.                                     *)
(***************************************************************************)
Diagrams == 1..MaxDiags

\* Groups of diagrams as RoleProbe hands them over (lists without repeats):
\* no diagram, one diagram, or all the diagrams in ascending or descending
\* order.
Descending(S) ==
    LET a == Ascending(S)
    IN  [i \in 1..Len(a) |-> a[Len(a) + 1 - i]]

Groups ==
    {<<>>} \cup {<<d>> : d \in Diagrams} \cup {Ascending(Diagrams), Descending(Diagrams)}

\* The steps a scheme may have at position k: the arrow of step k has one
\* Conditions child of its own, or none.
StepsAt(k) ==
    {Step(r, p, c) : r \in Groups, p \in Groups, c \in {<<>>, <<CondBase + k>>}}

RECURSIVE StepLists(_)
StepLists(n) ==
    IF n = 0 THEN {<<>>}
    ELSE {Append(l, st) : l \in StepLists(n - 1), st \in StepsAt(n)}

InitGraph ==
    /\ scheme = Unset
    /\ export = Unset
    /\ rectA = Unset /\ rectB = Unset /\ geo = Unset
    /\ crop = Unset /\ mapped = Unset
    /\ layout = Unset /\ probe = Unset
    /\ config = Unset /\ panels = Unset
    /\ search = Unset /\ document = Unset
    /\ remapped = Unset

\* ReactionScheme(fig, reaction_steps)
Construct ==
    /\ scheme = Unset
    /\ \E n \in 0..MaxSteps : \E steps \in StepLists(n) :
          scheme' = Some(ReactionSchemeInit(steps))
    /\ UNCHANGED <<export, rectA, rectB, geo, crop, mapped, layout, probe,
                 config, panels, search, document, remapped>>

\* scheme.to_smirks()
ToSmirks ==
    /\ scheme # Unset
    /\ export = Unset
    /\ export' = Some(to_smirks(Val(scheme)))
    /\ UNCHANGED <<scheme, rectA, rectB, geo, crop, mapped, layout, probe,
                 config, panels, search, document, remapped>>

\* scheme.to_json()
ToJson ==
    /\ scheme # Unset
    /\ document = Unset
    /\ document' = Some(to_json(Val(scheme)))
    /\ UNCHANGED <<scheme, export, rectA, rectB, geo, crop, mapped, layout, probe,
                   config, panels, search, remapped>>

NextGraph == Construct \/ ToSmirks

SpecGraph == InitGraph /\ [][NextGraph]_vars

\* The same schemes, serialised with to_json().
NextJson == Construct \/ ToJson

SpecJson == InitGraph /\ [][NextJson]_vars

(***************************************************************************)
(* Claims on the scheme graph (specification SpecGraph).                   *)
(***************************************************************************)
\* The groups (reactants and products) of the steps of the scheme.
GroupsOf(sch) ==
    {sch.reaction_steps[i].reactants : i \in DOMAIN sch.reaction_steps}
    \cup {sch.reaction_steps[i].products : i \in DOMAIN sch.reaction_steps}

\* The ids under which the registry holds a node whose members are S.
IdsOf(sch, S) ==
    {sch.nodes[i].value : i \in {j \in DOMAIN sch.nodes : RangeOf(sch.nodes[j].key) = S}}

\* The edges (id, successor id) held by the adjacency.
EdgesOf(sch) ==
    UNION {{<<a.key, a.value[j]>> : j \in DOMAIN a.value} : a \in RangeOf(sch.adjacency)}

\* The one id of the node with members S (when C8 holds there is exactly one).
IdOf(sch, S) == CHOOSE n \in IdsOf(sch, S) : TRUE

\* The two edges create_graph is to generate for a step.
StepEdges(sch, st) ==
    {<<IdOf(sch, RangeOf(st.reactants)), IdOf(sch, RangeOf(st.conditions))>>,
     <<IdOf(sch, RangeOf(st.conditions)), IdOf(sch, RangeOf(st.products))>>}

\* C8: two groups with the same set of diagrams (in any list order, in any
\* steps) are registered under one node id, and every edge generated for
\* either group uses that single id: the adjacency holds exactly the edges
\* reactants -> conditions -> products of the steps, between those ids.
C8_SameSetOneNodeId ==
    scheme # Unset =>
        LET sch == Val(scheme)
        IN  /\ \A g \in GroupsOf(sch) : Cardinality(IdsOf(sch, RangeOf(g))) = 1
            /\ EdgesOf(sch) =
                  UNION {StepEdges(sch, sch.reaction_steps[i]) :
                            i \in DOMAIN sch.reaction_steps}

\* C8 witness: a scheme was built in which the products of step 1 and the
\* reactants of step 2 are the same diagrams listed in different orders.
C8_SharedGroupBuilt ==
    /\ scheme # Unset
    /\ Len(Val(scheme).reaction_steps) = 2
    /\ LET p1 == Val(scheme).reaction_steps[1].products
           r2 == Val(scheme).reaction_steps[2].reactants
       IN  Len(p1) = 2 /\ RangeOf(p1) = RangeOf(r2) /\ p1 # r2

NodeIds(sch) == {sch.nodes[i].value : i \in DOMAIN sch.nodes}
Sources(sch) == {n \in NodeIds(sch) : \A e \in EdgesOf(sch) : e[2] # n}
Sinks(sch) == {n \in NodeIds(sch) : \A e \in EdgesOf(sch) : e[1] # n}
SinglePath(sch) == Cardinality(Sources(sch)) = 1 /\ Cardinality(Sinks(sch)) = 1

\* Every step of the scheme has reactants, products and conditions.
NoEmptyNode(sch) ==
    \A i \in DOMAIN sch.reaction_steps :
        /\ sch.reaction_steps[i].reactants # <<>>
        /\ sch.reaction_steps[i].products # <<>>
        /\ sch.reaction_steps[i].conditions # <<>>

\* C9: on a scheme whose graph has exactly one source node and one sink node,
\* to_smirks() returns a string with exactly (number of nodes - 1)
\* delimiter-separated segments.  Stated here for schemes whose steps all
\* have reactants, products and conditions, where it already fails.
C9_SinglePathExport ==
    (/\ scheme # Unset /\ export # Unset
     /\ NoEmptyNode(Val(scheme))
     /\ SinglePath(Val(scheme))) =>
        Val(export) =
            Returned([type |-> "str",
                      segments |-> Cardinality(NodeIds(Val(scheme))) - 1])

\* C10: on a scheme whose graph has more than one source or more than one
\* sink, to_smirks() raises an explicit unsupported-operation error, and
\* returns neither a string nor an empty or sentinel value.  Stated here for
\* schemes whose steps all have reactants, products and conditions, where it
\* already fails.
C10_MultiPathExportRaises ==
    (/\ scheme # Unset /\ export # Unset
     /\ NoEmptyNode(Val(scheme))
     /\ \/ Cardinality(Sources(Val(scheme))) > 1
        \/ Cardinality(Sinks(Val(scheme))) > 1) =>
        Val(export) = Raised("NotImplementedError")

\* C16: to_json() returns a document with a node_labels entry for every node
\* of the registry, however many there are, and an adjacency entry for every
\* node that has successors, listing exactly the ids of its successors.
C16_JsonCoversRegistry ==
    (scheme # Unset /\ document # Unset /\ Val(scheme).reaction_steps # <<>>) =>
        LET out == Val(document)
            sch == Val(scheme)
        IN  /\ out.kind = "return"
            /\ Len(out.value.node_labels) = Len(sch.nodes)
            /\ \A e \in DOMAIN sch.adjacency :
                  \E a \in DOMAIN out.value.adjacency :
                      /\ out.value.adjacency[a].key = sch.adjacency[e].key
                      /\ out.value.adjacency[a].value = sch.adjacency[e].value

\* The id the registry holds for a node (a group of diagrams or the
\* conditions of an arrow).
NodeId(sch, node) == Lookup(sch.nodes, frozenset(node))

\* C30: in the node registry of a ReactionScheme a conditions node never
\* shares an id with a diagram-group node, and the conditions of two steps
\* (which have different arrows) never share an id, also when a step has an
\* empty reactant or product group or an arrow with no conditions.
C30_ConditionsIdsDistinct ==
    scheme # Unset =>
        \A i, j \in DOMAIN Val(scheme).reaction_steps :
            /\ NodeId(Val(scheme), Val(scheme).reaction_steps[i].conditions)
                  # NodeId(Val(scheme), Val(scheme).reaction_steps[j].reactants)
            /\ NodeId(Val(scheme), Val(scheme).reaction_steps[i].conditions)
                  # NodeId(Val(scheme), Val(scheme).reaction_steps[j].products)
            /\ i # j =>
                  NodeId(Val(scheme), Val(scheme).reaction_steps[i].conditions)
                      # NodeId(Val(scheme), Val(scheme).reaction_steps[j].conditions)

(***************************************************************************)
(* output.py: find_path                                                    *)
(*                                                                         *)
(* Graph.find_path and its override ReactionScheme.find_path read the      *)
(* adjacency from self._graph_dict.  ReactionScheme never assigns that     *)
(* attribute (graph_dict is Unset); for a Graph that carries one, it is a  *)
(* dict from nodes to successor lists.  Nodes are numbers.  The search is  *)
(* followed one invocation at a time: search.node is the first argument of *)
(* the pending invocation, search.depth the number of invocations on the   *)
(* stack, search.path the list `path` all invocations share.               *)
(***************************************************************************)
\* Nodes are 0..MaxNode; a successor list holds at most MaxSuccessors nodes.
MaxNode == 2
MaxSuccessors == 2
\* Python's recursion limit (sys.getrecursionlimit()), at the scale of the graphs.
RecursionLimit == 4

\* Python's None as a return value of find_path (a found path is never empty).
NonePath == <<>>

\* One invocation find_path(node, node2, path) on the state s of a search.
find_path(s) ==
    IF s.depth >= RecursionLimit
    THEN [s EXCEPT !.outcome = Some(Raised("RecursionError"))]
    ELSE IF s.graph_dict = Unset
    THEN [s EXCEPT !.outcome = Some(Raised("AttributeError"))]
    ELSE LET graph == Val(s.graph_dict)
             path == Append(s.path, s.node)
         IN  IF ~HasKey(graph, s.node)
             THEN [s EXCEPT !.path = path, !.outcome = Some(Returned(NonePath))]
             ELSE IF s.node2 \in RangeOf(Lookup(graph, s.node))
             THEN [s EXCEPT !.path = path,
                            !.outcome = Some(Returned(Append(path, s.node2)))]
             ELSE IF Lookup(graph, s.node) = <<>>
             THEN [s EXCEPT !.path = path, !.outcome = Some(Returned(NonePath))]
             ELSE [s EXCEPT !.path = path,
                            !.node = Lookup(graph, s.node)[1],
                            !.depth = @ + 1]

(***************************************************************************)
(* Path-search specification: find_path(node1, node2) is called once on a  *)
(* graph, any node1 and node2, any adjacency over the nodes.               *)
(***************************************************************************)
Nodes == 0..MaxNode

\* The successor lists: the lists of up to MaxSuccessors distinct nodes.
SuccessorLists ==
    UNION {{f \in [1..n -> Nodes] : \A i, j \in 1..n : f[i] = f[j] => i = j} :
              n \in 0..MaxSuccessors}

\* The adjacency dicts over the nodes: any set of them as keys, any successor
\* list for each.
GraphDicts(nodes) ==
    UNION {{[i \in 1..Cardinality(K) |->
                [key |-> Ascending(K)[i], value |-> succ[Ascending(K)[i]]]] :
               succ \in [K -> SuccessorLists]} :
           K \in SUBSET nodes}

InitPath ==
    /\ \E gd \in {Unset} \cup {Some(g) : g \in GraphDicts(Nodes)}, node1 \in Nodes, node2 \in Nodes :
          search = [graph_dict |-> gd, node1 |-> node1, node2 |-> node2,
                    node |-> node1, depth |-> 0, path |-> <<>>, outcome |-> Unset]
    /\ rectA = Unset /\ rectB = Unset /\ geo = Unset
    /\ crop = Unset /\ mapped = Unset
    /\ scheme = Unset /\ export = Unset
    /\ layout = Unset /\ probe = Unset
    /\ config = Unset /\ panels = Unset
    /\ document = Unset
    /\ remapped = Unset

\* The pending invocation of find_path runs up to its return, its raise or
\* its recursive call.
FindPath ==
    /\ search.outcome = Unset
    /\ search' = find_path(search)
    /\ UNCHANGED <<rectA, rectB, geo, crop, mapped, scheme, export, layout, probe,
                   config, panels, document, remapped>>

NextPath == FindPath

SpecPath == InitPath /\ [][NextPath]_vars

(***************************************************************************)
(* Claims on find_path (specification SpecPath).                           *)
(***************************************************************************)
\* C14: find_path(node1, node2) terminates on every directed adjacency, one
\* with a cycle reachable from node1 included: no node is visited twice in
\* one search, and the recursion never runs into the interpreter's limit.
C14_FindPathVisitsOnce ==
    /\ \A i, j \in DOMAIN search.path : search.path[i] = search.path[j] => i = j
    /\ search.outcome # Some(Raised("RecursionError"))

(***************************************************************************)
(* output.py: RoleProbe                                                    *)
(*                                                                         *)
(* A layout is the figure the probe works on: the image shape (H, W), the  *)
(* panels of the diagrams and, for every arrow, its panel and its          *)
(* reference point (x, y).  A diagram is its index in layout.diagrams, an  *)
(* arrow its index in layout.arrows (Diagram.__eq__ and SolidArrow.__eq__  *)
(* compare panels, and the panels of a layout are distinct).               *)
(*                                                                         *)
(* Arrows are horizontal: the ellipse fitted to the contour has angle 90,  *)
(* so that direction is (1, 0) and direction_normal is (0, 1).             *)
(*                                                                         *)
(* Numbers.  A point of a scan has x = x2 / 2 and y = yp / yq (centres of  *)
(* panels are half-integers, centres of line clusters are means).  The     *)
(* endpoints of a probing segment are kept multiplied by the segment's     *)
(* scale, 2 * yq, which makes them integers; lengths are kept squared.     *)
(***************************************************************************)

\* SchemeConfig.MAX_GROUP_DISTANCE (pixels), at the scale of the layouts.
MAX_GROUP_DISTANCE == 2

\* SchemeConfig.MIN_PROBING_OVERLAP_FACTOR, as numerator and denominator.
MIN_PROBING_OVERLAP_FACTOR == [num |-> 1, den |-> 2]

RECURSIVE SumOver(_, _)
SumOver(f, n) == IF n = 0 THEN 0 ELSE f[n] + SumOver(f, n - 1)

Abs(a) == IF a < 0 THEN -a ELSE a

\* The lists that hold the members of S once each: list(set(diags)) is one of them.
ListsOf(S) ==
    {f \in [1..Cardinality(S) -> S] : \A i, j \in 1..Cardinality(S) : f[i] = f[j] => i = j}

\* list.remove(x): the list without its first element equal to x.
RemoveFirst(list, x) ==
    LET k == CHOOSE i \in DOMAIN list :
                 list[i] = x /\ \A j \in 1..(i - 1) : list[j] # x
    IN  [i \in 1..(Len(list) - 1) |-> IF i < k THEN list[i] ELSE list[i + 1]]

\* Rect.center, as (2 * x, y numerator, y denominator)
center(R) == [x2 |-> R.left + R.right, yp |-> R.top + R.bottom, yq |-> 2]

\* RoleProbe.__init__.  raised, scans, fallback, assigned, resolved, before
\* and resolve_raised are not fields of the code: they keep what the calls
\* made so far did (exceptions raised, line scans run from the arrows'
\* centres, line scans run by the multi-line fallback, calls of assign_diags,
\* calls of resolve_nodes) for the claims to read.
RoleProbeInit(lay) ==
    LET n == Len(lay.diagrams)
        dims == UNION {{width(lay.diagrams[i]), height(lay.diagrams[i])} : i \in 1..n}
        halves == [i \in 1..n |-> width(lay.diagrams[i]) + height(lay.diagrams[i])]
    IN  [stepsize |-> CHOOSE m \in dims : \A x \in dims : m <= x,
         segment_length |-> SumOver(halves, n) \div (4 * n),
         reaction_steps |-> <<>>,
         diag_steps |-> [d \in 1..n |-> <<>>],
         raised |-> {},
         scans |-> {},
         fallback |-> {},
         resolve_raised |-> FALSE,
         assigned |-> <<>>,
         resolved |-> 0,
         before |-> Unset]

\* RoleProbe._compute_arrow_scan_params for a horizontal arrow
compute_arrow_scan_params ==
    [direction |-> <<1, 0>>, direction_normal |-> <<0, 1>>]

\* find_points_on_line(center, t, distance) for a unit vector t along an
\* axis: the endpoints of the segment of length `distance` centred at
\* `center` and directed along t, multiplied by scale = 2 * yq.
find_points_on_line(c, t, distance) ==
    [scale |-> 2 * c.yq,
     p1 |-> <<c.yq * c.x2 - t[1] * c.yq * distance, 2 * c.yp - t[2] * c.yq * distance>>,
     p2 |-> <<c.yq * c.x2 + t[1] * c.yq * distance, 2 * c.yp + t[2] * c.yq * distance>>]

\* euclidean_distance(p1, p2), squared
euclidean_distance(p1, p2) == distSq(p1, p2)

\* RoleProbe._check_overlap: 0 when the intersection is empty, else the
\* diagonal of the intersection (squared, at the segment's scale).
check_overlap(segment, panel) ==
    LET t1 == segment.scale * RectIter(panel)[1]
        l1 == segment.scale * RectIter(panel)[2]
        b1 == segment.scale * RectIter(panel)[3]
        r1 == segment.scale * RectIter(panel)[4]
        t2 == Min(segment.p1[2], segment.p2[2])
        b2 == Max(segment.p1[2], segment.p2[2])
        l2 == Min(segment.p1[1], segment.p2[1])
        r2 == Max(segment.p1[1], segment.p2[1])
        t == Max(t1, t2)
        b == Min(b1, b2)
        l == Max(l1, l2)
        r == Min(r1, r2)
        hgt == b - t
        wid == r - l
    IN  IF hgt < 0 \/ wid < 0 THEN 0 ELSE hgt * hgt + wid * wid

\* RoleProbe.sufficient_overlap: overlap > min(len_segment, d_diag) * factor
sufficient_overlap(segment, panel) ==
    LET len_segment == euclidean_distance(segment.p1, segment.p2)
        d_diag == segment.scale * segment.scale *
                      euclidean_distance(<<panel.top, panel.left>>,
                                         <<panel.bottom, panel.right>>)
        f == MIN_PROBING_OVERLAP_FACTOR
    IN  check_overlap(segment, panel) * f.den * f.den
            > Min(len_segment, d_diag) * f.num * f.num

\* Sample points that leave the start point on the other side.
scan_center_reversed(pr, start_point, switch, n) ==
    [x2 |-> start_point.x2 - switch * 2 * pr.stepsize * n,
     yp |-> start_point.yp,
     yq |-> start_point.yq]

\* The sample points of a line scan: centers = start_point + deltas, with
\* deltas = switch * (stepsize_x * n, stepsize_y * n) for n = 1..num_centers.
scan_center(pr, start_point, switch, n) ==
    LET stepsize_x == pr.stepsize * compute_arrow_scan_params.direction[1]
        stepsize_y == pr.stepsize * compute_arrow_scan_params.direction[2]
    IN  [x2 |-> start_point.x2 + switch * 2 * stepsize_x * n,
         yp |-> start_point.yp + switch * start_point.yq * stepsize_y * n,
         yq |-> start_point.yq]

\* num_centers of a line scan over a region of length region_x_length (given
\* doubled): int(min(num_centers_x, num_centers_y)), where num_centers_x is
\* abs(region_x_length // stepsize_x) and, stepsize_y being 0.0, num_centers_y
\* is inf or nan and never the minimum.
num_centers(pr, region_x2) ==
    region_x2 \div (2 * pr.stepsize * compute_arrow_scan_params.direction[1])

\* The probing segments a line scan keeps, as the numbers n of their centres:
\* all of them, or those before the first one that overlaps another arrow
\* when that one has index > 2 in the list (n - 1 > 2).
scan_lines(pr, lay, arrow, region_x2, start_point, switch) ==
    LET num == num_centers(pr, region_x2)
        line(n) == find_points_on_line(scan_center(pr, start_point, switch, n),
                                       compute_arrow_scan_params.direction_normal,
                                       pr.segment_length)
        other_arrows == DOMAIN lay.arrows \ {arrow}
        hit(n) == \E a \in other_arrows : check_overlap(line(n), lay.arrows[a].panel) # 0
        hits == {n \in 1..num : hit(n)}
        arrow_overlap == (CHOOSE n \in hits : \A m \in hits : n <= m) - 1
    IN  IF hits # {} /\ arrow_overlap > 2 THEN 1..arrow_overlap ELSE 1..num

\* RoleProbe._perform_line_scan: the diagrams found, as a set (the caller
\* receives list(set(diags))).  With num_centers = 0 the array of deltas has
\* shape (0,) and adding it to start_point raises ValueError.
perform_line_scan(pr, lay, arrow, region_x2, start_point, switch) ==
    IF num_centers(pr, region_x2) = 0 THEN Raised("ValueError")
    ELSE LET lines == scan_lines(pr, lay, arrow, region_x2, start_point, switch)
             line(n) == find_points_on_line(scan_center(pr, start_point, switch, n),
                                            compute_arrow_scan_params.direction_normal,
                                            pr.segment_length)
         IN  Returned({d \in DOMAIN lay.diagrams :
                          \E n \in lines : sufficient_overlap(line(n), lay.diagrams[d])})

\* The course of a line scan that does not raise: for every probing segment
\* kept, in the order of the list `lines`, its centre and the diagrams the
\* loop over `lines` finds on it.
line_scan_trace(pr, lay, arrow, region_x2, start_point, switch) ==
    LET lines == scan_lines(pr, lay, arrow, region_x2, start_point, switch)
        line(n) == find_points_on_line(scan_center(pr, start_point, switch, n),
                                       compute_arrow_scan_params.direction_normal,
                                       pr.segment_length)
    IN  [n \in 1..Cardinality(lines) |->
            [center |-> scan_center(pr, start_point, switch, n),
             found |-> {d \in DOMAIN lay.diagrams :
                          sufficient_overlap(line(n), lay.diagrams[d])}]]

\* The points handed to DBSCAN in _search_elsewhere: the y-centres (doubled)
\* of the diagrams, then that of the arrow.
line_points(lay, arrow) ==
    [i \in 1..(Len(lay.diagrams) + 1) |->
        IF i <= Len(lay.diagrams)
        THEN lay.diagrams[i].top + lay.diagrams[i].bottom
        ELSE lay.arrows[arrow].panel.top + lay.arrows[arrow].panel.bottom]

\* DBSCAN(eps, min_samples=2): i and j are neighbours when |y_i - y_j| <= eps,
\* eps = mean of the diagrams' heights.
dbscan_neighbours(lay, X, i, j) ==
    LET n == Len(lay.diagrams)
        heights == [d \in 1..n |-> height(lay.diagrams[d])]
    IN  n * Abs(X[i] - X[j]) <= 2 * SumOver(heights, n)

\* The points density-reachable from those of S.
RECURSIVE dbscan_grow(_, _, _)
dbscan_grow(lay, X, S) ==
    LET T == S \cup {j \in DOMAIN X : \E i \in S : dbscan_neighbours(lay, X, i, j)}
    IN  IF T = S THEN S ELSE dbscan_grow(lay, X, T)

\* DBSCAN.fit_predict as the partition it labels: with min_samples = 2 a
\* point with a neighbour is a core point and a point without one is noise
\* (label -1); all the noise points carry the same label.
dbscan_clusters(lay, X) ==
    LET noise == {i \in DOMAIN X : \A j \in DOMAIN X \ {i} : ~dbscan_neighbours(lay, X, i, j)}
    IN  {dbscan_grow(lay, X, {i}) : i \in DOMAIN X \ noise}
            \cup (IF noise = {} THEN {} ELSE {noise})

\* centres of _search_elsewhere: the mean y of every labelled group except the
\* arrow's, as (numerator, denominator).
cluster_centres(lay, arrow) ==
    LET X == line_points(lay, arrow)
        mean(C) == [yp |-> SumOver([k \in 1..Len(X) |-> IF k \in C THEN X[k] ELSE 0], Len(X)),
                    yq |-> 2 * Cardinality(C)]
    IN  {mean(C) : C \in {K \in dbscan_clusters(lay, X) : Len(X) \notin K}}

\* RoleProbe._search_elsewhere
search_elsewhere(pr, lay, where, arrow, switch) ==
    LET ya == center(lay.arrows[arrow].panel)
        centres == cluster_centres(lay, arrow)
        below == {c \in centres : c.yp * ya.yq > ya.yp * c.yq}
        above == {c \in centres : c.yp * ya.yq < ya.yp * c.yq}
        first(S) == CHOOSE c \in S : \A e \in S : c.yp * e.yq <= e.yp * c.yq
        last(S) == CHOOSE c \in S : \A e \in S : c.yp * e.yq >= e.yp * c.yq
        startpoint(x, c) == [x2 |-> 2 * x, yp |-> c.yp, yq |-> c.yq]
    IN  IF where = "down-left"
        THEN IF below = {} THEN Raised("IndexError")
             ELSE perform_line_scan(pr, lay, arrow, 2 * lay.H,
                                    startpoint(0, first(below)), switch)
        ELSE IF above = {} THEN Raised("IndexError")
             ELSE perform_line_scan(pr, lay, arrow, 2 * lay.H,
                                    startpoint(lay.W, last(above)), switch)

\* RoleProbe.assign_diags: min() of an empty group raises ValueError.
assign_diags(lay, group1, group2, arrow) ==
    LET ref_point == lay.arrows[arrow].reference_pt
        dists(group) == {edge_separation_pt(lay.diagrams[group[i]], ref_point) :
                            i \in DOMAIN group}
        compute_ref_group_dist(group) ==
            CHOOSE m \in dists(group) : \A x \in dists(group) : m <= x
    IN  IF group1 = <<>> \/ group2 = <<>> THEN Raised("ValueError")
        ELSE IF compute_ref_group_dist(group1) <= compute_ref_group_dist(group2)
             THEN Returned([reactants |-> group2, products |-> group1])
             ELSE Returned([reactants |-> group1, products |-> group2])

\* The scans of probe_around_arrow, up to the call of assign_diags: the two
\* groups found (as sets) and the single_line flag, or the exception raised.
probe_scans(pr, lay, arrow) ==
    LET c == center(lay.arrows[arrow].panel)
        x_one2 == c.x2
        x_two2 == 2 * lay.W - c.x2
        one == perform_line_scan(pr, lay, arrow, x_one2, c, -1)
        two == perform_line_scan(pr, lay, arrow, x_two2, c, 1)
        closer_extreme ==
            IF c.x2 * c.x2 <= (c.x2 - 2 * lay.W) * (c.x2 - 2 * lay.W) THEN 0 ELSE lay.W
        search_direction == IF closer_extreme = 0 THEN "up-right" ELSE "down-left"
        else_one == IF one.value # {} THEN one
                    ELSE search_elsewhere(pr, lay, search_direction, arrow, -1)
        else_two == IF two.value # {} THEN two
                    ELSE search_elsewhere(pr, lay, search_direction, arrow, 1)
    IN  IF one.kind = "raise" THEN one
        ELSE IF two.kind = "raise" THEN two
        ELSE IF one.value # {} /\ two.value # {}
             THEN Returned([one |-> one.value, two |-> two.value, single_line |-> TRUE])
        ELSE IF else_one.kind = "raise" THEN else_one
        ELSE IF else_two.kind = "raise" THEN else_two
        ELSE Returned([one |-> else_one.value, two |-> else_two.value,
                       single_line |-> FALSE])

\* The two line scans probe_around_arrow makes from the centre of the arrow
\* (lines 472-475), as far as they run: the second scan is not made when the
\* first one raises.
arrow_scans(pr, lay, arrow) ==
    LET c == center(lay.arrows[arrow].panel)
        x_one2 == c.x2
        x_two2 == 2 * lay.W - c.x2
        scan(region_x2, switch) ==
            [arrow |-> arrow, switch |-> switch,
             trace |-> line_scan_trace(pr, lay, arrow, region_x2, c, switch)]
    IN  IF num_centers(pr, x_one2) = 0 THEN {}
        ELSE IF num_centers(pr, x_two2) = 0 THEN {scan(x_one2, -1)}
        ELSE {scan(x_one2, -1), scan(x_two2, 1)}

\* The point _search_elsewhere starts its line scan from: (0, centre of the
\* first line cluster below the arrow) for 'down-left', (image width, centre
\* of the last line cluster above the arrow) for 'up-right'; Unset when there
\* is no such cluster.
search_startpoint(lay, where, arrow) ==
    LET ya == center(lay.arrows[arrow].panel)
        centres == cluster_centres(lay, arrow)
        below == {c \in centres : c.yp * ya.yq > ya.yp * c.yq}
        above == {c \in centres : c.yp * ya.yq < ya.yp * c.yq}
        first(S) == CHOOSE c \in S : \A e \in S : c.yp * e.yq <= e.yp * c.yq
        last(S) == CHOOSE c \in S : \A e \in S : c.yp * e.yq >= e.yp * c.yq
        startpoint(x, c) == [x2 |-> 2 * x, yp |-> c.yp, yq |-> c.yq]
    IN  IF where = "down-left"
        THEN IF below = {} THEN Unset ELSE Some(startpoint(0, first(below)))
        ELSE IF above = {} THEN Unset ELSE Some(startpoint(lay.W, last(above)))

\* The line scans the multi-line fallback of probe_around_arrow makes (lines
\* 486-491), as far as they run, `scans` being the two scans made from the
\* centre of the arrow: none when one of those raised or both found a
\* diagram; the scan for an empty side is not made when the search for the
\* side before it raises.
fallback_scans(pr, lay, arrow, scans) ==
    LET c == center(lay.arrows[arrow].panel)
        closer_extreme ==
            IF c.x2 * c.x2 <= (c.x2 - 2 * lay.W) * (c.x2 - 2 * lay.W) THEN 0 ELSE lay.W
        where == IF closer_extreme = 0 THEN "up-right" ELSE "down-left"
        diags(switch) ==
            UNION {UNION {s.trace[n].found : n \in DOMAIN s.trace} :
                      s \in {x \in scans : x.switch = switch}}
        start == search_startpoint(lay, where, arrow)
        scan(switch) ==
            [arrow |-> arrow, switch |-> switch, where |-> where,
             trace |-> line_scan_trace(pr, lay, arrow, 2 * lay.H, Val(start), switch)]
    IN  IF Cardinality(scans) < 2 THEN {}
        ELSE IF diags(-1) # {} /\ diags(1) # {} THEN {}
        ELSE IF start = Unset \/ num_centers(pr, 2 * lay.H) = 0 THEN {}
        ELSE (IF diags(-1) = {} THEN {scan(-1)} ELSE {})
                \cup (IF diags(1) = {}
                         /\ search_elsewhere(pr, lay, where, arrow, -1).kind = "return"
                      THEN {scan(1)} ELSE {})

\* A step that is added to the back-references of its first diagram only.
append_step_to_head(diag_steps, diags, sid) ==
    IF diags = <<>> THEN diag_steps
    ELSE [diag_steps EXCEPT ![Head(diags)] = Append(@, sid)]

\* ReactionStep.__init__, with the append to reaction_steps: the step is
\* added to the back-references of every diagram of reactants + products.
RECURSIVE append_step_to(_, _, _)
append_step_to(diag_steps, diags, sid) ==
    IF diags = <<>> THEN diag_steps
    ELSE append_step_to([diag_steps EXCEPT ![Head(diags)] = Append(@, sid)],
                        Tail(diags), sid)

\* A step that is marked as lying on one print line whatever the scans found.
ReactionStepInit_single_line(arrow, reactants, products, single_line) ==
    [arrow |-> arrow, reactants |-> reactants, products |-> products,
     single_line |-> TRUE]

\* ReactionStep.__init__, the fields of the step
ReactionStepInit(arrow, reactants, products, single_line) ==
    [arrow |-> arrow, reactants |-> reactants, products |-> products,
     single_line |-> single_line]

\* RoleProbe.probe_around_arrow(arrow), the scans having returned the lists
\* diags_one and diags_two.
probe_around_arrow(pr, lay, arrow, diags_one, diags_two, single_line) ==
    LET res == assign_diags(lay, diags_one, diags_two, arrow)
        step == ReactionStepInit(arrow, res.value.reactants, res.value.products,
                                 single_line)
        sid == Len(pr.reaction_steps) + 1
    IN  IF res.kind = "raise"
        THEN [pr EXCEPT !.raised = @ \cup {<<arrow, res.value>>}]
        ELSE [pr EXCEPT
                !.reaction_steps = Append(@, step),
                !.diag_steps = append_step_to(@, step.reactants \o step.products, sid),
                !.assigned = Append(@, [group1 |-> diags_one, group2 |-> diags_two,
                                        arrow |-> arrow,
                                        reactants |-> step.reactants,
                                        products |-> step.products])]

\* compute_smallest_non_self_distance(diag, group + [step.arrow]) (squared)
compute_smallest_non_self_distance(lay, diag, group, arrow) ==
    LET others == IF diag \in RangeOf(group) THEN RemoveFirst(group, diag) ELSE group
        dists == {edge_separation_rect(lay.diagrams[diag], lay.diagrams[others[i]]) :
                     i \in DOMAIN others}
                 \cup {edge_separation_rect(lay.diagrams[diag], lay.arrows[arrow].panel)}
    IN  CHOOSE m \in dists : \A x \in dists : m <= x

\* An inner loop that applies the distance criterion to the steps spread
\* across several lines as well.
RECURSIVE resolve_steps_of_any_line(_, _, _, _)
resolve_steps_of_any_line(pr, lay, diag, i) ==
    IF i > Len(pr.diag_steps[diag]) THEN pr
    ELSE LET sid == pr.diag_steps[diag][i]
             step == pr.reaction_steps[sid]
             in_reactants == diag \in RangeOf(step.reactants)
             group == IF in_reactants THEN step.reactants ELSE step.products
             min_dist == compute_smallest_non_self_distance(lay, diag, group, step.arrow)
         IN  IF min_dist > MAX_GROUP_DISTANCE * MAX_GROUP_DISTANCE
             THEN IF diag \notin RangeOf(group)
                  THEN [pr EXCEPT !.resolve_raised = TRUE]
                  ELSE resolve_steps_of_any_line(
                         [pr EXCEPT
                            !.reaction_steps[sid] =
                               IF in_reactants
                               THEN [step EXCEPT !.reactants = RemoveFirst(group, diag)]
                               ELSE [step EXCEPT !.products = RemoveFirst(group, diag)],
                            !.diag_steps[diag] = RemoveFirst(@, sid)],
                         lay, diag, i + 1)
             ELSE resolve_steps_of_any_line(pr, lay, diag, i + 1)

\* RoleProbe.resolve_nodes, the inner loop `for step in diag.reaction_steps`
\* from list position i on.  The loop reads the list it removes from: after a
\* removal the iterator still moves on to the next position.  group.remove
\* raises ValueError when the diagram is not in the group; what was removed
\* before stays removed.
RECURSIVE resolve_steps_of(_, _, _, _)
resolve_steps_of(pr, lay, diag, i) ==
    IF i > Len(pr.diag_steps[diag]) THEN pr
    ELSE LET sid == pr.diag_steps[diag][i]
             step == pr.reaction_steps[sid]
             in_reactants == diag \in RangeOf(step.reactants)
             group == IF in_reactants THEN step.reactants ELSE step.products
             min_dist == compute_smallest_non_self_distance(lay, diag, group, step.arrow)
         IN  IF ~step.single_line THEN resolve_steps_of(pr, lay, diag, i + 1)
             ELSE IF min_dist > MAX_GROUP_DISTANCE * MAX_GROUP_DISTANCE
                  THEN IF diag \notin RangeOf(group)
                       THEN [pr EXCEPT !.resolve_raised = TRUE]
                       ELSE resolve_steps_of(
                              [pr EXCEPT
                                 !.reaction_steps[sid] =
                                    IF in_reactants
                                    THEN [step EXCEPT !.reactants = RemoveFirst(group, diag)]
                                    ELSE [step EXCEPT !.products = RemoveFirst(group, diag)],
                                 !.diag_steps[diag] = RemoveFirst(@, sid)],
                              lay, diag, i + 1)
             ELSE resolve_steps_of(pr, lay, diag, i + 1)

\* RoleProbe.resolve_nodes, the outer loop `for diag in self.diagrams` from
\* diagram d on.
RECURSIVE resolve_from(_, _, _)
resolve_from(pr, lay, d) ==
    IF d > Len(lay.diagrams) \/ pr.resolve_raised THEN pr
    ELSE resolve_from(resolve_steps_of(pr, lay, d, 1), lay, d + 1)

\* RoleProbe.resolve_nodes.  `before` keeps the steps and back-references the
\* call started from, `resolved` counts the calls and `resolve_raised` tells
\* whether the last call raised: none is a field of the code.
resolve_nodes(pr, lay) ==
    [resolve_from([pr EXCEPT !.resolve_raised = FALSE], lay, 1) EXCEPT
        !.resolved = pr.resolved + 1,
        !.before = Some([reaction_steps |-> pr.reaction_steps,
                         diag_steps |-> pr.diag_steps])]

(***************************************************************************)
(* Role-probe specification: a RoleProbe is built for a layout, every      *)
(* arrow is probed once, in any order, and resolve_nodes is called at any  *)
(* time, at most MaxResolves times.                                        *)
(*                                                                         *)
(* The layouts.  Diagrams and arrows are 2 x 2 boxes set on print lines.   *)
(* The first line holds a pattern of diagrams ("D") and arrows ("A"), the  *)
(* first object `margin` pixels from the left edge and the last one        *)
(* `margin` pixels from the right edge, consecutive objects 1..MaxGap      *)
(* pixels apart.  A second line, when there is one, holds one diagram,     *)
(* 0..MaxRowGap pixels below the first line and 0..MaxOffset pixels from   *)
(* the left edge; a third line, when there is one, holds one diagram at    *)
(* the left edge.  A diagram may also be laid over the arrow of a line     *)
(* (the box of a drawing that encloses the arrow), reaching 0..MaxOver     *)
(* pixels beyond the arrow's panel on either side.  The reference point of *)
(* an arrow is the middle of its left or of its right edge.                *)
(***************************************************************************)
Box(top, left) == Rect(top, left, top + 2, left + 2)

Patterns ==
    {<<"D", "A", "D">>, <<"D", "A", "D", "A", "D">>, <<"D", "A", "A", "D">>,
     <<"A", "D">>, <<"D", "A">>}

Margins == {0, MaxMargin}

\* Left edge of the k-th object of a line with the given gaps.
RECURSIVE LeftOf(_, _, _)
LeftOf(margin, gaps, k) ==
    IF k = 1 THEN margin ELSE LeftOf(margin, gaps, k - 1) + 2 + gaps[k - 1]

Positions(pattern, kind) == SelectSeq([k \in DOMAIN pattern |-> k],
                                      LAMBDA k : pattern[k] = kind)

\* The layout of one print line; heads[j] is "left" or "right" for arrow j.
FirstLine(pattern, margin, gaps, heads) ==
    LET ds == Positions(pattern, "D")
        as == Positions(pattern, "A")
        panel(k) == Box(0, LeftOf(margin, gaps, k))
    IN  [W |-> LeftOf(margin, gaps, Len(pattern)) + 2 + margin,
         H |-> 2,
         diagrams |-> [i \in DOMAIN ds |-> panel(ds[i])],
         arrows |-> [j \in DOMAIN as |->
                        [panel |-> panel(as[j]),
                         reference_pt |->
                            <<IF heads[j] = "left" THEN panel(as[j]).left
                              ELSE panel(as[j]).right, 1>>]]]

\* The layout with one more diagram on a second print line.
WithSecondLine(lay, rowgap, offset) ==
    [lay EXCEPT !.H = 2 + rowgap + 2,
                !.W = Max(lay.W, offset + 2),
                !.diagrams = Append(@, Box(2 + rowgap, offset))]

OneLineLayouts ==
    UNION {{FirstLine(pattern, margin, gaps, heads) :
                margin \in Margins,
                gaps \in [1..(Len(pattern) - 1) -> 1..MaxGap],
                heads \in [1..Len(Positions(pattern, "A")) -> {"left", "right"}]} :
           pattern \in Patterns}

TwoLineLayouts ==
    {WithSecondLine(FirstLine(<<"D", "A">>, margin, gaps, heads), rowgap, offset) :
        margin \in Margins, gaps \in [1..1 -> 1..MaxGap],
        heads \in [1..1 -> {"left", "right"}],
        rowgap \in 0..MaxRowGap, offset \in 0..MaxOffset}

\* The layout with one more print line below the last one, holding one
\* diagram.
WithNextLine(lay, rowgap, offset) ==
    [lay EXCEPT !.H = lay.H + rowgap + 2,
                !.W = Max(lay.W, offset + 2),
                !.diagrams = Append(@, Box(lay.H + rowgap, offset))]

\* Three print lines: a two-line layout and a third line, MaxRowGap pixels
\* below the second one, with a diagram at the left edge.
ThreeLineLayouts == {WithNextLine(lay, MaxRowGap, 0) : lay \in TwoLineLayouts}

\* The layout with one more diagram laid over arrow j: its panel reaches
\* `over` pixels beyond the arrow's panel on the left and on the right.
WithOverlaid(lay, j, over) ==
    [lay EXCEPT !.diagrams =
        Append(@, Rect(0, lay.arrows[j].panel.left - over, 2,
                       lay.arrows[j].panel.right + over))]

OverlaidLayouts ==
    {WithOverlaid(FirstLine(<<"D", "A", "D">>, margin, gaps, heads), 1, over) :
        margin \in Margins, gaps \in [1..2 -> 1..MaxGap],
        heads \in [1..1 -> {"left", "right"}],
        over \in 0..MaxOver}

Layouts ==
    OneLineLayouts \cup TwoLineLayouts \cup ThreeLineLayouts \cup OverlaidLayouts

InitProbe ==
    /\ layout \in Layouts
    /\ probe = RoleProbeInit(layout)
    /\ rectA = Unset /\ rectB = Unset /\ geo = Unset
    /\ crop = Unset /\ mapped = Unset
    /\ scheme = Unset /\ export = Unset
    /\ config = Unset /\ panels = Unset
    /\ search = Unset /\ document = Unset
    /\ remapped = Unset

\* probe.probe_around_arrow(arrow), for an arrow not probed before.
ProbeAroundArrow ==
    /\ \E arrow \in DOMAIN layout.arrows :
          /\ \A i \in DOMAIN probe.reaction_steps : probe.reaction_steps[i].arrow # arrow
          /\ \A r \in probe.raised : r[1] # arrow
          /\ \E found \in {probe_scans(probe, layout, arrow)} :
             \E scans \in {arrow_scans(probe, layout, arrow)} :
             \E fallback \in {fallback_scans(probe, layout, arrow, scans)} :
                IF found.kind = "raise"
                THEN probe' = [probe EXCEPT !.raised = @ \cup {<<arrow, found.value>>},
                                            !.scans = @ \cup scans,
                                            !.fallback = @ \cup fallback]
                ELSE \E diags_one \in ListsOf(found.value.one) :
                     \E diags_two \in ListsOf(found.value.two) :
                        probe' = [probe_around_arrow(probe, layout, arrow, diags_one,
                                                     diags_two, found.value.single_line)
                                     EXCEPT !.scans = @ \cup scans,
                                            !.fallback = @ \cup fallback]
    /\ UNCHANGED <<layout, rectA, rectB, geo, crop, mapped, scheme, export,
                 config, panels, search, document, remapped>>

\* probe.resolve_nodes()
ResolveNodes ==
    /\ probe.resolved < MaxResolves
    /\ probe' = resolve_nodes(probe, layout)
    /\ UNCHANGED <<layout, rectA, rectB, geo, crop, mapped, scheme, export,
                 config, panels, search, document, remapped>>

NextProbe == ProbeAroundArrow \/ ResolveNodes

SpecProbe == InitProbe /\ [][NextProbe]_vars

(***************************************************************************)
(* Claims on the role probe (specification SpecProbe).                     *)
(***************************************************************************)
\* The distance (squared) between the nearest edges or corners of two boxes.
NearestDistance(A, B) ==
    LET dx == Max(0, Max(B.left - A.right, A.left - B.right))
        dy == Max(0, Max(B.top - A.bottom, A.top - B.bottom))
    IN  dx * dx + dy * dy

\* The smallest distance (squared) between a diagram of the group and the
\* reference point of the arrow.
GroupDistance(lay, group, arrow) ==
    LET pt == lay.arrows[arrow].reference_pt
        dists == {NearestDistance(lay.diagrams[group[i]], Rect(pt[2], pt[1], pt[2], pt[1])) :
                     i \in DOMAIN group}
    IN  CHOOSE m \in dists : \A x \in dists : m <= x

\* C5: assign_diags(group1, group2, arrow) with two non-empty groups returns
\* as products the group whose minimum edge-separation to arrow.reference_pt
\* is smaller and as reactants the other group, whichever argument the closer
\* group is passed as.  The edge-separation is the distance between the
\* nearest edges or corners.
C5_CloserGroupIsProducts ==
    \A k \in DOMAIN probe.assigned :
        LET call == probe.assigned[k]
            d1 == GroupDistance(layout, call.group1, call.arrow)
            d2 == GroupDistance(layout, call.group2, call.arrow)
        IN  /\ d1 < d2 => call.products = call.group1 /\ call.reactants = call.group2
            /\ d2 < d1 => call.products = call.group2 /\ call.reactants = call.group1

\* The steps a diagram belongs to (as reactant or product).
MemberOf(step, d) == d \in RangeOf(step.reactants) \cup RangeOf(step.products)

\* In the step, the diagram's minimum edge-separation to the other members of
\* its group and to the step's arrow exceeds MAX_GROUP_DISTANCE.
TooFar(lay, step, d) ==
    LET group == IF d \in RangeOf(step.reactants) THEN step.reactants ELSE step.products
        others == RangeOf(group) \ {d}
    IN  /\ \A o \in others :
              NearestDistance(lay.diagrams[d], lay.diagrams[o])
                  > MAX_GROUP_DISTANCE * MAX_GROUP_DISTANCE
        /\ NearestDistance(lay.diagrams[d], lay.arrows[step.arrow].panel)
              > MAX_GROUP_DISTANCE * MAX_GROUP_DISTANCE

\* C6: after resolve_nodes returns, every diagram that was too far from the
\* rest of its group and from the arrow in a single-line step it belonged to
\* is out of that group, and the step is out of the diagram's
\* back-references: for every such step of the diagram.
C6_TooFarRemovedFromEveryStep ==
    probe.before # Unset =>
        LET pre == Val(probe.before)
        IN  \A sid \in DOMAIN pre.reaction_steps : \A d \in DOMAIN layout.diagrams :
                LET was == pre.reaction_steps[sid]
                    now == probe.reaction_steps[sid]
                IN  (was.single_line /\ MemberOf(was, d) /\ TooFar(layout, was, d)) =>
                        /\ IF d \in RangeOf(was.reactants)
                           THEN d \notin RangeOf(now.reactants)
                           ELSE d \notin RangeOf(now.products)
                        /\ sid \notin RangeOf(probe.diag_steps[d])

(***************************************************************************)
(* segments.py, configs/figure.py: construction of regions                 *)
(*                                                                         *)
(* A surface (Figure) is a name; "None" is Python's None.  Config.FIGURE   *)
(* is the process-wide default surface.                                    *)
(***************************************************************************)
\* Coordinates handed to the constructors range over 0..MaxCorner.
MaxCorner == 1

Surfaces == {"figA", "figB"}

\* Rect.area
area(R) == width(R) * height(R)

\* A mixin that always takes the process-wide default.
GlobalFigureMixinInit_default(fig, FIGURE) == FIGURE

\* configs/figure.py, GlobalFigureMixin.__init__(self, fig): the value self.fig
\* is bound to, FIGURE being Config.FIGURE at the time of the call.
GlobalFigureMixinInit(fig, FIGURE) == IF fig = "None" THEN FIGURE ELSE fig

\* Panel.__init__(coords, fig, tags=None)
PanelInit(coords, fig, FIGURE) ==
    [rect |-> Rect(coords[1], coords[2], coords[3], coords[4]),
     fig |-> GlobalFigureMixinInit(fig, FIGURE),
     tags |-> "None", role |-> "None", parent_panel |-> "None"]

(***************************************************************************)
(* Construction specification: Config.FIGURE is set by the caller at any   *)
(* time; one Rect and one Panel are constructed, from any four coordinates *)
(* and any surface argument.  panels.rect is the Rect built, panels.panel  *)
(* the Panel built together with the fig argument it received and          *)
(* Config.FIGURE at that time.                                             *)
(***************************************************************************)
Corners == (0..MaxCorner) \X (0..MaxCorner) \X (0..MaxCorner) \X (0..MaxCorner)

InitPanel ==
    /\ config \in Surfaces \cup {"None"}
    /\ panels = [rect |-> Unset, panel |-> Unset]
    /\ rectA = Unset /\ rectB = Unset /\ geo = Unset
    /\ crop = Unset /\ mapped = Unset
    /\ scheme = Unset /\ export = Unset
    /\ layout = Unset /\ probe = Unset
    /\ search = Unset /\ document = Unset
    /\ remapped = Unset

\* Config.FIGURE = f
SetConfigFigure ==
    /\ \E f \in Surfaces \cup {"None"} : f # config /\ config' = f
    /\ UNCHANGED <<panels, rectA, rectB, geo, crop, mapped, scheme, export, layout,
                   probe, search, document, remapped>>

\* Rect(coords)
ConstructRect ==
    /\ panels.rect = Unset
    /\ \E coords \in Corners :
          panels' = [panels EXCEPT
                        !.rect = Some(Rect(coords[1], coords[2], coords[3], coords[4]))]
    /\ UNCHANGED <<config, rectA, rectB, geo, crop, mapped, scheme, export, layout,
                   probe, search, document, remapped>>

\* Panel(coords, fig)
ConstructPanel ==
    /\ panels.panel = Unset
    /\ \E coords \in Corners, fig \in Surfaces \cup {"None"} :
          panels' = [panels EXCEPT
                        !.panel = Some([obj |-> PanelInit(coords, fig, config),
                                        fig_arg |-> fig,
                                        FIGURE |-> config])]
    /\ UNCHANGED <<config, rectA, rectB, geo, crop, mapped, scheme, export, layout,
                   probe, search, document, remapped>>

NextPanel == SetConfigFigure \/ ConstructRect \/ ConstructPanel

SpecPanel == InitPanel /\ [][NextPanel]_vars

(***************************************************************************)
(* Claims on construction (specification SpecPanel).                       *)
(***************************************************************************)
\* C11: a Panel constructed with an explicit non-None surface has fig equal
\* to that surface, whatever Config.FIGURE is at that time or later; the
\* process-wide default is what fig is bound to only when the constructor
\* received fig=None.
C11_ExplicitFigureBound ==
    panels.panel # Unset =>
        LET built == Val(panels.panel)
        IN  /\ built.fig_arg # "None" => built.obj.fig = built.fig_arg
            /\ built.fig_arg = "None" => built.obj.fig = built.FIGURE

\* A panel bound explicitly to figA while the default was figB, the default
\* having changed since.
C11_ExplicitWhileDefaultDiffers ==
    /\ panels.panel # Unset
    /\ Val(panels.panel).fig_arg = "figA"
    /\ Val(panels.panel).FIGURE = "figB"
    /\ config = "None"

\* A region with zero area, or with top > bottom or left > right.
InvalidGeometry(R) == area(R) = 0 \/ R.top > R.bottom \/ R.left > R.right

\* C12: constructing a region (Rect or Panel) with zero area, with
\* top > bottom or with left > right fails: no such region object exists.
C12_NoInvalidRegion ==
    /\ panels.rect # Unset => ~InvalidGeometry(Val(panels.rect))
    /\ panels.panel # Unset => ~InvalidGeometry(Val(panels.panel).obj.rect)

\* The arrow has been probed: probe_around_arrow(arrow) has returned or raised.
Probed(arrow) ==
    \/ \E i \in DOMAIN probe.reaction_steps : probe.reaction_steps[i].arrow = arrow
    \/ \E r \in probe.raised : r[1] = arrow

\* The scans of probe_around_arrow(arrow), the multi-line fallback included,
\* return with no diagram on one or on both sides.
EmptySide(arrow) ==
    \E found \in {probe_scans(probe, layout, arrow)} :
        /\ found.kind = "return"
        /\ found.value.one = {} \/ found.value.two = {}

\* C13: when probe_around_arrow finds no diagram on one or both sides of the
\* arrow even after the multi-line fallback, it does not raise and appends one
\* ReactionStep for the arrow, with the empty group.
C13_EmptySideStepRecorded ==
    \A arrow \in DOMAIN layout.arrows :
        (Probed(arrow) /\ EmptySide(arrow)) =>
            /\ \A r \in probe.raised : r[1] # arrow
            /\ \E i \in DOMAIN probe.reaction_steps :
                  /\ probe.reaction_steps[i].arrow = arrow
                  /\ probe.reaction_steps[i].reactants = <<>>
                        \/ probe.reaction_steps[i].products = <<>>

\* C15: in every ReactionStep appended to reaction_steps by
\* probe_around_arrow, no diagram is a member of both the reactants group and
\* the products group.
C15_GroupsDisjoint ==
    \A i \in DOMAIN probe.reaction_steps :
        RangeOf(probe.reaction_steps[i].reactants)
            \cap RangeOf(probe.reaction_steps[i].products) = {}

\* The number of the first segment of the trace that finds diagram d.
FirstHit(trace, d) ==
    CHOOSE n \in DOMAIN trace : d \in trace[n].found /\ \A m \in 1..(n - 1) : d \notin trace[m].found

\* The diagrams a scan finds.
FoundBy(trace) == UNION {trace[n].found : n \in DOMAIN trace}

C19_MultiLineStepsKept ==
    probe.before # Unset =>
        LET pre == Val(probe.before)
        IN  \A sid \in DOMAIN pre.reaction_steps :
                ~pre.reaction_steps[sid].single_line =>
                    /\ probe.reaction_steps[sid] = pre.reaction_steps[sid]
                    /\ \A d \in DOMAIN layout.diagrams :
                          MemberOf(pre.reaction_steps[sid], d) =>
                              sid \in RangeOf(probe.diag_steps[d])

\* resolve_nodes has run on a step spread across two lines one of whose
\* diagrams is too far from the rest of its group and from the arrow.
C19_FarMultiLineStepResolved ==
    /\ probe.before # Unset
    /\ \E sid \in DOMAIN Val(probe.before).reaction_steps :
          /\ ~Val(probe.before).reaction_steps[sid].single_line
          /\ \E d \in DOMAIN layout.diagrams :
                /\ MemberOf(Val(probe.before).reaction_steps[sid], d)
                /\ TooFar(layout, Val(probe.before).reaction_steps[sid], d)

\* The positions, in the list of segments a scan went through, of the
\* segments that overlap the panel of another arrow.
ArrowHits(scan) ==
    {n \in DOMAIN scan.trace :
        \E a \in DOMAIN layout.arrows \ {scan.arrow} :
            check_overlap(find_points_on_line(scan.trace[n].center,
                                              compute_arrow_scan_params.direction_normal,
                                              probe.segment_length),
                          layout.arrows[a].panel) # 0}

\* C22: a line scan truncates its probing segments at the first one that
\* overlaps another arrow's panel, so that no diagram is collected from that
\* segment or a later one, unless that first overlap is at one of the first
\* two segments, in which case nothing is truncated.
C22_TruncatedAtOtherArrow ==
    \A scan \in probe.scans :
        \A n \in DOMAIN scan.trace :
            (/\ scan.trace[n].found # {}
             /\ \E k \in ArrowHits(scan) : k <= n) =>
                \E k \in ArrowHits(scan) : k <= 2

\* The sum over all diagrams of width + height: 2 * n times the mean of
\* (width + height) / 2 over the n diagrams.
SumOfDimensions(lay) ==
    SumOver([i \in DOMAIN lay.diagrams |->
                width(lay.diagrams[i]) + height(lay.diagrams[i])],
            Len(lay.diagrams))

\* C23: the probe's segment length, the length of every probing
\* cross-section, equals the mean over all diagrams of (width + height) / 2.
C23_SegmentLengthIsMeanHalfPerimeter ==
    2 * Len(layout.diagrams) * probe.segment_length = SumOfDimensions(layout)

\* C24: when the multi-line fallback finds no qualifying line cluster (no
\* cluster centre above the arrow for 'up-right', none below it for
\* 'down-left', as in a single-line scheme), _search_elsewhere returns an
\* empty result: probing an arrow never ends in the IndexError of indexing
\* the empty list of candidate centres.
C24_FallbackDoesNotRaise ==
    \A arrow \in DOMAIN layout.arrows : <<arrow, "IndexError">> \notin probe.raised

\* The scan probe_around_arrow made from the centre of `arrow` on the side
\* `switch`.
ScanOf(arrow, switch) ==
    CHOOSE s \in probe.scans : s.arrow = arrow /\ s.switch = switch

\* C25: the step emitted by probe_around_arrow has single_line == True
\* exactly when both initial scans from the arrow centre returned at least
\* one diagram; if either side returned none, the fallback search is run for
\* each empty side (its result is the group of that side) and the step has
\* single_line == False.
C25_SingleLineIffBothSidesFound ==
    \A i \in DOMAIN probe.reaction_steps :
        \E arrow \in {probe.reaction_steps[i].arrow} :
        \E one \in {FoundBy(ScanOf(arrow, -1).trace)} :
        \E two \in {FoundBy(ScanOf(arrow, 1).trace)} :
            /\ probe.reaction_steps[i].single_line <=> (one # {} /\ two # {})
            /\ one # {} => RangeOf(probe.assigned[i].group1) = one
            /\ two # {} => RangeOf(probe.assigned[i].group2) = two
            /\ (one # {} /\ two = {}) =>
                  \E where \in {"up-right", "down-left"} :
                      search_elsewhere(probe, layout, where, arrow, 1)
                          = Returned(RangeOf(probe.assigned[i].group2))
            /\ (one = {} /\ two # {}) =>
                  \E where \in {"up-right", "down-left"} :
                      search_elsewhere(probe, layout, where, arrow, -1)
                          = Returned(RangeOf(probe.assigned[i].group1))

\* A step has been emitted for an arrow with no diagram on one side of its
\* print line: the group of that side comes from the fallback search.
C25_FallbackStepEmitted ==
    \E i \in DOMAIN probe.reaction_steps :
        /\ ~probe.reaction_steps[i].single_line
        /\ \/ FoundBy(ScanOf(probe.reaction_steps[i].arrow, -1).trace) = {}
           \/ FoundBy(ScanOf(probe.reaction_steps[i].arrow, 1).trace) = {}

\* A sample point lies within the image extent.
InImage(c) ==
    /\ 0 <= c.x2 /\ c.x2 <= 2 * layout.W
    /\ 0 <= c.yp /\ c.yp <= layout.H * c.yq

\* C26: every sample point of a line scan lies within the image extent
\* (0 <= x <= image width, 0 <= y <= image height), on both sides of the
\* arrow and in the scans started by the multi-line fallback.
C26_SamplePointsInImage ==
    \A scan \in probe.scans \cup {[arrow |-> s.arrow, switch |-> s.switch, trace |-> s.trace] :
                                    s \in probe.fallback} :
        \A n \in DOMAIN scan.trace : InImage(scan.trace[n].center)

\* C27: in every state reached by probe_around_arrow and resolve_nodes
\* calls, back-references agree with group membership: for every diagram d
\* and step s, s is in d.reaction_steps if and only if d is in s.reactants or
\* in s.products.
C27_BackReferencesAgree ==
    \A d \in DOMAIN layout.diagrams :
        \A sid \in DOMAIN probe.reaction_steps :
            sid \in RangeOf(probe.diag_steps[d]) <=> MemberOf(probe.reaction_steps[sid], d)

\* resolve_nodes has pruned a diagram from a group of a step that other
\* diagrams still belong to.
C27_MemberPruned ==
    /\ probe.before # Unset
    /\ \E sid \in DOMAIN Val(probe.before).reaction_steps :
          /\ \E d \in DOMAIN layout.diagrams :
                /\ MemberOf(Val(probe.before).reaction_steps[sid], d)
                /\ ~MemberOf(probe.reaction_steps[sid], d)
          /\ \E d \in DOMAIN layout.diagrams : MemberOf(probe.reaction_steps[sid], d)

\* C29: resolve_nodes is idempotent: a second call right after a first one
\* removes no further diagram from any group and no further step from any
\* back-reference list.  The call is a second one when no step was appended
\* since the last call: the steps are those that call left.
C29_ResolveIdempotent ==
    [][(/\ probe.before # Unset
        /\ Len(probe.reaction_steps) = Len(Val(probe.before).reaction_steps)
        /\ probe'.resolved = probe.resolved + 1) =>
          /\ probe'.reaction_steps = probe.reaction_steps
          /\ probe'.diag_steps = probe.diag_steps]_vars

(***************************************************************************)
(* Claims on the spatial algebra (specification SpecGeom).                 *)
(***************************************************************************)
GeoMeasured == geo.overlaps # Unset /\ geo.sepAB # Unset

\* The closed rectangles of A and B have a point in common (they overlap or
\* touch).  With integer coordinates a common point exists iff a common grid
\* point exists.
SharePoint(A, B) ==
    \E x \in 0..(MaxCoord + 1), y \in 0..(MaxCoord + 1) :
        contains_point(A, <<x, y>>) /\ contains_point(B, <<x, y>>)

\* Both regions have positive width and height.
PositiveAreas ==
    /\ width(rectA) > 0 /\ height(rectA) > 0
    /\ width(rectB) > 0 /\ height(rectB) > 0

\* C1 (as stated): for any two well-formed regions A and B, touching ones
\* included, A.edge_separation(B) == 0 if and only if A.overlaps(B).  Stated
\* here for regions of positive width and height, where it already fails.
C1_SeparationZeroIffOverlaps ==
    (GeoMeasured /\ PositiveAreas) =>
        ((Val(geo.sepAB) = 0) <=> Val(geo.overlaps))

\* C1 (amended): A.overlaps(B) implies A.edge_separation(B) == 0, and
\* A.edge_separation(B) == 0 if and only if A and B overlap or touch, i.e.
\* their closed rectangles have a point in common.
C1_SeparationZeroIffSharePoint ==
    GeoMeasured =>
        /\ Val(geo.overlaps) => Val(geo.sepAB) = 0
        /\ (Val(geo.sepAB) = 0) <=> SharePoint(rectA, rectB)

\* C1 witness: both methods were called on two regions that only touch.
C1_TouchingMeasured ==
    /\ GeoMeasured
    /\ SharePoint(rectA, rectB)
    /\ ~Val(geo.overlaps)
    /\ PositiveAreas

\* C2: edge_separation is symmetric, A.edge_separation(B) ==
\* B.edge_separation(A), in every relative placement of A and B.  Stated here
\* for regions of positive width and height, where it already fails.
C2_SeparationSymmetric ==
    (geo.sepAB # Unset /\ PositiveAreas) => Val(geo.sepAB) = Val(geo.sepBA)

\* C3: A.compute_iou(B) is exactly 0.0 when A.overlaps(B) is false, is greater
\* than 0 when A.overlaps(B) is true, and never raises for disjoint regions.
\* Stated here for regions of positive width and height, where it already
\* fails.
C3_IouZeroIffDisjoint ==
    (geo.iou # Unset /\ geo.overlaps # Unset /\ PositiveAreas) =>
        /\ ~Val(geo.overlaps) => IouIsZero(Val(geo.iou))
        /\ Val(geo.overlaps) => IouIsPositive(Val(geo.iou))

C18_SeparationIsNearestDistance ==
    (geo.sepAB # Unset /\ PositiveAreas /\ ~overlaps(rectA, rectB)) =>
        Val(geo.sepAB) = NearestDistance(rectA, rectB)

====
